---- MODULE Spec2Model ----
(***************************************************************************)
(* Model of app/services/notification_service.py (NotificationService) and *)
(* of scripts_pruebas/verificar_sql_completo.py (verificar_y_regenerar).   *)
(*                                                                         *)
(* Every public operation is synchronous and single-threaded, so each one  *)
(* is one atomic action.  The observable effects of a call (repository     *)
(* lookups, send attempts, _send_email calls, SMTP steps, return value)    *)
(* are recorded in `resultado`; its inputs are recorded in `llamada`.      *)
(***************************************************************************)
EXTENDS Integers, Sequences, FiniteSets

VARIABLES
    usuarios,       \* rows of the user table, in listing order
    incapacidades,  \* rows of the incapacity table
    env,            \* os.environ: the SMTP_* / FROM_EMAIL variables
    llamada,        \* the last call made: operation, arguments, injected failure
    resultado,      \* what that call did and returned
    fs,             \* the script's files: diagnosticos.txt, sql_scripts/, the .sql
    script          \* outcome of the last run of verificar_y_regenerar

vars == <<usuarios, incapacidades, env, llamada, resultado, fs, script>>

----------------------------------------------------------------------------
(* Bounds of the model *)

\* explicit user rows that follow the (optional) block of ordinary users
MaxUsuarios == 2
\* lines of diagnosticos.txt
MaxLineas == 205

(* Program constants *)

\* rol_id of an administrator
ROL_ADMIN == 10
\* usuario_repo.list(skip=0, limit=1000)
LIST_LIMIT == 1000
\* batch_size = 100
batch_size == 100

----------------------------------------------------------------------------
(* Python values *)

\* os.getenv(name) -> None
Unset == "<unset>"
\* None for an optional str argument
None == "<None>"

\* truthiness of an Optional[str]
Truthy(s) == s # Unset /\ s # None /\ s # ""

\* Optional[row]: <<>> is None, <<r>> is r
Some(r) == <<r>>
Nothing == <<>>

Min(a, b) == IF a <= b THEN a ELSE b

----------------------------------------------------------------------------
(* The repositories (collaborators of the service) *)

\* The user table is [previos |-> n, filas |-> rows]: n rows of ordinary users
\* (ids 1..n, active, not administrators) followed by the rows `filas`.

\* id of the first row of `filas`
PrimerId == LIST_LIMIT

UsuarioFila(id, rol, est) ==
    [id_usuario |-> id, rol_id |-> rol, estado |-> est, correo_electronico |-> id]

NumFilas(us) == us.previos + Len(us.filas)

\* the i-th row of the table, in listing order
Fila(us, i) ==
    IF i <= us.previos THEN UsuarioFila(i, 1, TRUE) ELSE us.filas[i - us.previos]

usuario_repo_get(us, id) ==
    IF \E i \in 1..Len(us.filas) : us.filas[i].id_usuario = id
    THEN Some(us.filas[CHOOSE i \in 1..Len(us.filas) : us.filas[i].id_usuario = id])
    ELSE IF id \in 1..us.previos THEN Some(Fila(us, id))
    ELSE Nothing

\* rows skip+1 .. skip+limit of the table
usuario_repo_list(us, skip, limit) ==
    [i \in 1..(Min(NumFilas(us), skip + limit) - skip) |-> Fila(us, skip + i)]

incapacidad_repo_get(incs, id) ==
    IF \E r \in incs : r.id = id
    THEN Some(CHOOSE r \in incs : r.id = id)
    ELSE Nothing

----------------------------------------------------------------------------
(* Injected failures: what the environment makes raise during one call *)

PasosSMTP == <<"connect", "starttls", "login", "send_message">>

SinFalla == [tipo |-> "ninguna", k |-> 0, destinos |-> {}, paso |-> 0]

\* the k-th repository call of the operation raises
FallaDb(k) == [tipo |-> "db", k |-> k, destinos |-> {}, paso |-> 0]

\* building the email content raises
FallaContenido == [tipo |-> "contenido", k |-> 0, destinos |-> {}, paso |-> 0]

\* SMTP step number `paso` raises for the recipients in `destinos`
FallaSmtp(destinos, paso) ==
    [tipo |-> "smtp", k |-> 0, destinos |-> destinos, paso |-> paso]

DbRaises(falla, k) == falla.tipo = "db" /\ falla.k = k

\* 0, or the SMTP step that raises when mail is sent to `to`
PasoQueFalla(falla, to) ==
    IF falla.tipo = "smtp" /\ to \in falla.destinos THEN falla.paso ELSE 0

----------------------------------------------------------------------------
(* _send_email *)

getenv(e, name, default) == IF e[name] = Unset THEN default ELSE e[name]

\* the strings int() accepts, among those the model gives SMTP_PORT
IntLiterals == {"587", "465"}

\* faulty variant: no `with` block; the connection is closed by a call that follows
\* send_message, so a step that raises leaves it open
SesionSMTP_sin_with(to_email, paso_falla) ==
    LET ultimo == IF paso_falla = 0 THEN Len(PasosSMTP) ELSE paso_falla
        pasos == [i \in 1..ultimo |->
                    [paso |-> PasosSMTP[i], destino |-> to_email,
                     ok |-> (i # paso_falla)]]
        cierre == IF paso_falla # 0
                  THEN <<>>
                  ELSE <<[paso |-> "close", destino |-> to_email, ok |-> TRUE]>>
    IN [raised |-> (paso_falla # 0), smtp |-> pasos \o cierre]

\* the SMTP session of lines 559-562: connect, starttls, login, send_message,
\* left through the `with` block, which closes an established connection
SesionSMTP(to_email, paso_falla) ==
    LET ultimo == IF paso_falla = 0 THEN Len(PasosSMTP) ELSE paso_falla
        pasos == [i \in 1..ultimo |->
                    [paso |-> PasosSMTP[i], destino |-> to_email,
                     ok |-> (i # paso_falla)]]
        cierre == IF paso_falla = 1
                  THEN <<>>
                  ELSE <<[paso |-> "close", destino |-> to_email, ok |-> TRUE]>>
    IN [raised |-> (paso_falla # 0), smtp |-> pasos \o cierre]

_send_email_body(e, to_email, text_content, paso_falla) ==
    LET smtp_port     == getenv(e, "SMTP_PORT", "587")
        smtp_username == getenv(e, "SMTP_USERNAME", Unset)
        smtp_password == getenv(e, "SMTP_PASSWORD", Unset)
    IN  IF smtp_port \notin IntLiterals
        THEN \* int() raises ValueError
             [raised |-> TRUE, ret |-> FALSE, smtp |-> <<>>]
        ELSE IF ~Truthy(smtp_username) \/ ~Truthy(smtp_password)
        THEN [raised |-> FALSE, ret |-> TRUE, smtp |-> <<>>]
        ELSE LET s == SesionSMTP(to_email, paso_falla)
             IN  [raised |-> s.raised, ret |-> ~s.raised, smtp |-> s.smtp]

\* try: ... except Exception: return False
_send_email(e, to_email, text_content, paso_falla) ==
    LET r == _send_email_body(e, to_email, text_content, paso_falla)
    IN  IF r.raised
        THEN [raised |-> FALSE, ret |-> FALSE, smtp |-> r.smtp]
        ELSE r

----------------------------------------------------------------------------
(* What a call did *)

\* faulty variant: the record is fetched through a call that also marks it notified
Consulta_marca(repo, metodo, arg) ==
    [repo |-> repo, metodo |-> IF repo = "incapacidad" THEN "update" ELSE metodo,
     arg |-> arg]

\* one call of a repository method
Consulta(repo, metodo, arg) == [repo |-> repo, metodo |-> metodo, arg |-> arg]

\* the effects of (a part of) a call: repository calls, send attempts to
\* administrators, _send_email calls, SMTP steps
SinEfectos == [consultas |-> <<>>, intentos |-> <<>>, correos |-> <<>>, smtp |-> <<>>]

Devuelve(v, ef) ==
    [raised |-> FALSE, ret |-> v, consultas |-> ef.consultas,
     intentos |-> ef.intentos, correos |-> ef.correos, smtp |-> ef.smtp]

Lanza(ef) ==
    [raised |-> TRUE, ret |-> FALSE, consultas |-> ef.consultas,
     intentos |-> ef.intentos, correos |-> ef.correos, smtp |-> ef.smtp]

\* try: <r> except Exception: return v
Except(r, v) == IF r.raised THEN [r EXCEPT !.raised = FALSE, !.ret = v] ELSE r

ConConsultas(ef, cs) == [ef EXCEPT !.consultas = cs]

\* one call of _send_email
Correo(to_email, text_content) == [to_email |-> to_email, text_content |-> text_content]

----------------------------------------------------------------------------
(* _get_administradores *)

\* faulty variant: estado is not looked at
EsAdministrador_sin_estado(usuario) == usuario.rol_id = ROL_ADMIN

\* if usuario.rol_id == 10 and usuario.estado
EsAdministradorActivo(usuario) == usuario.rol_id = ROL_ADMIN /\ usuario.estado

AdminDict(usuario) ==
    [id |-> usuario.id_usuario, email |-> usuario.correo_electronico]

\* the list call is the k-th repository call of the operation
_get_administradores_body(us, falla, k) ==
    IF DbRaises(falla, k)
    THEN [raised |-> TRUE, ret |-> <<>>]
    ELSE LET listados == usuario_repo_list(us, 0, LIST_LIMIT)
             activos == SelectSeq(listados, EsAdministradorActivo)
         IN  [raised |-> FALSE,
              ret |-> [i \in 1..Len(activos) |-> AdminDict(activos[i])]]

\* try: ... except Exception: return []
_get_administradores(us, falla, k) ==
    LET r == _get_administradores_body(us, falla, k)
    IN  IF r.raised THEN [raised |-> FALSE, ret |-> <<>>] ELSE r

----------------------------------------------------------------------------
(* _send_notification_to_admin *)

_send_notification_to_admin_body(e, admin, falla) ==
    IF falla.tipo = "contenido"
    THEN \* _create_admin_new_incapacity_email_content raises
         Lanza(SinEfectos)
    ELSE LET text_content == "Nueva incapacidad registrada"
             r == _send_email(e, admin.email, text_content,
                              PasoQueFalla(falla, admin.email))
         IN  Devuelve(r.ret, [SinEfectos EXCEPT
                                !.correos = <<Correo(admin.email, text_content)>>,
                                !.smtp = r.smtp])

\* try: ... except Exception: return False
_send_notification_to_admin(e, admin, falla) ==
    Except(_send_notification_to_admin_body(e, admin, falla), FALSE)

----------------------------------------------------------------------------
(* notify_new_incapacity *)

\* faulty variant: success_count keeps only the outcome of the latest attempt
EnviarA_ultimo(e, admin, falla, acc) ==
    LET r == _send_notification_to_admin(e, admin, falla)
    IN  [success_count |-> IF r.ret THEN 1 ELSE 0,
         intentos |-> Append(acc.intentos, admin.email),
         correos |-> acc.correos \o r.correos,
         smtp |-> acc.smtp \o r.smtp]

\* one iteration of the loop of lines 89-98, on administradores[i]
EnviarA(e, admin, falla, acc) ==
    LET r == _send_notification_to_admin(e, admin, falla)
    IN  [success_count |-> acc.success_count + (IF r.ret THEN 1 ELSE 0),
         intentos |-> Append(acc.intentos, admin.email),
         correos |-> acc.correos \o r.correos,
         smtp |-> acc.smtp \o r.smtp]

RECURSIVE EnviarNotificaciones_corta(_, _, _, _, _)
\* faulty variant: the loop ends at the first attempt that fails
EnviarNotificaciones_corta(e, administradores, i, falla, acc) ==
    IF i > Len(administradores) \/ acc.success_count < i - 1
    THEN acc
    ELSE EnviarNotificaciones_corta(e, administradores, i + 1, falla,
                                    EnviarA(e, administradores[i], falla, acc))

RECURSIVE EnviarNotificaciones(_, _, _, _, _)
\* for admin in administradores: ... (iterations i..len)
EnviarNotificaciones(e, administradores, i, falla, acc) ==
    IF i > Len(administradores)
    THEN acc
    ELSE EnviarNotificaciones(e, administradores, i + 1, falla,
                              EnviarA(e, administradores[i], falla, acc))

notify_new_incapacity_body(us, incs, e, incapacidad_id, falla) ==
    LET c1 == <<Consulta("incapacidad", "get", incapacidad_id)>>
        incapacidad == incapacidad_repo_get(incs, incapacidad_id)
    IN
    IF DbRaises(falla, 1) THEN Lanza(ConConsultas(SinEfectos, c1))
    ELSE IF incapacidad = Nothing THEN Devuelve(FALSE, ConConsultas(SinEfectos, c1))
    ELSE
    LET c2 == Append(c1, Consulta("usuario", "get", incapacidad[1].usuario_id))
        empleado == usuario_repo_get(us, incapacidad[1].usuario_id)
    IN
    IF DbRaises(falla, 2) THEN Lanza(ConConsultas(SinEfectos, c2))
    ELSE IF empleado = Nothing THEN Devuelve(FALSE, ConConsultas(SinEfectos, c2))
    ELSE
    LET c3 == Append(c2, Consulta("usuario", "list", LIST_LIMIT))
        administradores == _get_administradores(us, falla, 3).ret
    IN
    IF administradores = <<>> THEN Devuelve(FALSE, ConConsultas(SinEfectos, c3))
    ELSE
    LET fin == EnviarNotificaciones(e, administradores, 1, falla,
                   [success_count |-> 0, intentos |-> <<>>,
                    correos |-> <<>>, smtp |-> <<>>])
    IN  Devuelve(fin.success_count > 0,
                 [consultas |-> c3, intentos |-> fin.intentos,
                  correos |-> fin.correos, smtp |-> fin.smtp])

\* try: ... except Exception: return False
notify_new_incapacity(us, incs, e, incapacidad_id, falla) ==
    Except(notify_new_incapacity_body(us, incs, e, incapacidad_id, falla), FALSE)

\* faulty variant: the alias refuses an empleado_id that does not own the record
notify_admins_comprueba_empleado(us, incs, e, incapacidad_id, empleado_id, falla) ==
    LET incapacidad == incapacidad_repo_get(incs, incapacidad_id)
    IN  IF incapacidad # Nothing /\ incapacidad[1].usuario_id # empleado_id
        THEN Devuelve(FALSE, SinEfectos)
        ELSE notify_new_incapacity(us, incs, e, incapacidad_id, falla)

\* logs, then return self.notify_new_incapacity(incapacidad_id)
notify_admins_new_incapacity(us, incs, e, incapacidad_id, empleado_id, falla) ==
    notify_new_incapacity(us, incs, e, incapacidad_id, falla)

----------------------------------------------------------------------------
(* _send_notification_to_employee *)

_send_notification_to_employee_body(e, empleado, tipo, motivo, falla) ==
    IF tipo = "incapacidad_rechazada"
    THEN IF falla.tipo = "contenido"
         THEN \* _create_rejection_email_content raises
              Lanza(SinEfectos)
         ELSE LET text_content == motivo
                  r == _send_email(e, empleado.correo_electronico, text_content,
                                   PasoQueFalla(falla, empleado.correo_electronico))
              IN  Devuelve(r.ret,
                     [SinEfectos EXCEPT
                        !.correos = <<Correo(empleado.correo_electronico, text_content)>>,
                        !.smtp = r.smtp])
    ELSE \* "incapacidad_revisada" and any other type: log, "simular envio exitoso"
         Devuelve(TRUE, SinEfectos)

\* faulty variant: the rejection mail is sent, but its result is dropped and the
\* method falls through to the final `return True`
_send_notification_to_employee_simula(e, empleado, tipo, motivo, falla) ==
    LET r == Except(_send_notification_to_employee_body(e, empleado, tipo, motivo, falla),
                    FALSE)
    IN  IF r.correos # <<>> THEN [r EXCEPT !.ret = TRUE] ELSE r

\* try: ... except Exception: return False
_send_notification_to_employee(e, empleado, tipo, motivo, falla) ==
    Except(_send_notification_to_employee_body(e, empleado, tipo, motivo, falla), FALSE)

----------------------------------------------------------------------------
(* notify_incapacity_reviewed, notify_incapacity_rejected *)

\* faulty variant: the reviewing administrator is looked up but not checked
notify_incapacity_reviewed_sin_admin(us, incs, e, incapacidad_id, admin_id, falla) ==
    LET c1 == <<Consulta("incapacidad", "get", incapacidad_id)>>
        incapacidad == incapacidad_repo_get(incs, incapacidad_id)
    IN
    IF DbRaises(falla, 1) THEN Lanza(ConConsultas(SinEfectos, c1))
    ELSE IF incapacidad = Nothing THEN Devuelve(FALSE, ConConsultas(SinEfectos, c1))
    ELSE
    LET c2 == Append(c1, Consulta("usuario", "get", incapacidad[1].usuario_id))
        empleado == usuario_repo_get(us, incapacidad[1].usuario_id)
    IN
    IF DbRaises(falla, 2) THEN Lanza(ConConsultas(SinEfectos, c2))
    ELSE IF empleado = Nothing THEN Devuelve(FALSE, ConConsultas(SinEfectos, c2))
    ELSE
    LET c3 == Append(c2, Consulta("usuario", "get", admin_id))
    IN
    IF DbRaises(falla, 3) THEN Lanza(ConConsultas(SinEfectos, c3))
    ELSE
    LET r == _send_notification_to_employee(e, empleado[1], "incapacidad_revisada",
                                            None, falla)
    IN  [r EXCEPT !.consultas = c3]

notify_incapacity_reviewed_body(us, incs, e, incapacidad_id, admin_id, falla) ==
    LET c1 == <<Consulta("incapacidad", "get", incapacidad_id)>>
        incapacidad == incapacidad_repo_get(incs, incapacidad_id)
    IN
    IF DbRaises(falla, 1) THEN Lanza(ConConsultas(SinEfectos, c1))
    ELSE IF incapacidad = Nothing THEN Devuelve(FALSE, ConConsultas(SinEfectos, c1))
    ELSE
    LET c2 == Append(c1, Consulta("usuario", "get", incapacidad[1].usuario_id))
        empleado == usuario_repo_get(us, incapacidad[1].usuario_id)
    IN
    IF DbRaises(falla, 2) THEN Lanza(ConConsultas(SinEfectos, c2))
    ELSE IF empleado = Nothing THEN Devuelve(FALSE, ConConsultas(SinEfectos, c2))
    ELSE
    LET c3 == Append(c2, Consulta("usuario", "get", admin_id))
        admin == usuario_repo_get(us, admin_id)
    IN
    IF DbRaises(falla, 3) THEN Lanza(ConConsultas(SinEfectos, c3))
    ELSE IF admin = Nothing THEN Devuelve(FALSE, ConConsultas(SinEfectos, c3))
    ELSE
    LET r == _send_notification_to_employee(e, empleado[1], "incapacidad_revisada",
                                            None, falla)
    IN  [r EXCEPT !.consultas = c3]

\* try: ... except Exception: return False
notify_incapacity_reviewed(us, incs, e, incapacidad_id, admin_id, falla) ==
    Except(notify_incapacity_reviewed_body(us, incs, e, incapacidad_id, admin_id, falla),
           FALSE)

notify_incapacity_rejected_body(us, incs, e, incapacidad_id, admin_id, motivo_rechazo, falla) ==
    LET c1 == <<Consulta("incapacidad", "get", incapacidad_id)>>
        incapacidad == incapacidad_repo_get(incs, incapacidad_id)
    IN
    IF DbRaises(falla, 1) THEN Lanza(ConConsultas(SinEfectos, c1))
    ELSE IF incapacidad = Nothing THEN Devuelve(FALSE, ConConsultas(SinEfectos, c1))
    ELSE
    LET c2 == Append(c1, Consulta("usuario", "get", incapacidad[1].usuario_id))
        empleado == usuario_repo_get(us, incapacidad[1].usuario_id)
    IN
    IF DbRaises(falla, 2) THEN Lanza(ConConsultas(SinEfectos, c2))
    ELSE IF empleado = Nothing THEN Devuelve(FALSE, ConConsultas(SinEfectos, c2))
    ELSE
    LET c3 == Append(c2, Consulta("usuario", "get", admin_id))
        admin == usuario_repo_get(us, admin_id)
    IN
    IF DbRaises(falla, 3) THEN Lanza(ConConsultas(SinEfectos, c3))
    ELSE IF admin = Nothing THEN Devuelve(FALSE, ConConsultas(SinEfectos, c3))
    ELSE
    LET \* motivo_rechazo or "No especificado"
        motivo == IF Truthy(motivo_rechazo) THEN motivo_rechazo ELSE "No especificado"
        success == _send_notification_to_employee(e, empleado[1],
                        "incapacidad_rechazada", motivo, falla)
    IN  [success EXCEPT !.consultas = c3]

\* faulty variant: the body without its exception guard
notify_incapacity_rejected_sin_guarda(us, incs, e, incapacidad_id, admin_id, motivo_rechazo, falla) ==
    notify_incapacity_rejected_body(us, incs, e, incapacidad_id, admin_id,
                                    motivo_rechazo, falla)

\* try: ... except Exception: return False
notify_incapacity_rejected(us, incs, e, incapacidad_id, admin_id, motivo_rechazo, falla) ==
    Except(notify_incapacity_rejected_body(us, incs, e, incapacidad_id, admin_id,
                                           motivo_rechazo, falla),
           FALSE)

----------------------------------------------------------------------------
(* get_notification_history, mark_notification_as_read *)

\* faulty variant: a stored notification of the user is paged out of a table
get_notification_history_de_tabla(user_id, skip, limit) ==
    Devuelve(IF skip = 0 /\ limit > 0 THEN <<[id |-> 1, user_id |-> user_id]>> ELSE <<>>,
             SinEfectos)

\* return []
get_notification_history(user_id, skip, limit) == Devuelve(<<>>, SinEfectos)

\* return True
mark_notification_as_read(notification_id, user_id) == Devuelve(TRUE, SinEfectos)

----------------------------------------------------------------------------
(* The states the service runs in *)

\* (rol_id, estado) of the explicit user rows
Perfiles == {<<ROL_ADMIN, TRUE>>, <<ROL_ADMIN, FALSE>>, <<1, TRUE>>}

\* n explicit rows with ids PrimerId, PrimerId + 1, ...
Explicitos(n) ==
    { [i \in 1..n |-> UsuarioFila(PrimerId + i - 1, p[i][1], p[i][2])] :
        p \in [1..n -> Perfiles] }

\* a user table: the explicit rows, alone or after LIST_LIMIT - 1 ordinary users
Tablas ==
    { [previos |-> pre, filas |-> ex] :
        pre \in {0, LIST_LIMIT - 1},
        ex \in UNION { Explicitos(n) : n \in 0..MaxUsuarios } }

\* ids a caller passes for a user: the explicit rows' and one that never exists
UsuarioIds == PrimerId..(PrimerId + MaxUsuarios)

\* incapacity 1 belongs to the first explicit user, incapacity 2 to the second;
\* no incapacity 3 exists
TablaIncapacidades ==
    { [id |-> 1, usuario_id |-> PrimerId], [id |-> 2, usuario_id |-> PrimerId + 1] }

IncapacidadIds == 1..3

EnvNames == {"SMTP_SERVER", "SMTP_PORT", "SMTP_USERNAME", "SMTP_PASSWORD", "FROM_EMAIL"}

\* every environment of the model
Envs ==
    { [n \in EnvNames |->
          CASE n = "SMTP_SERVER"   -> sv
            [] n = "SMTP_PORT"     -> pt
            [] n = "SMTP_USERNAME" -> un
            [] n = "SMTP_PASSWORD" -> pw
            [] OTHER               -> fr] :
        sv \in {Unset, "smtp.example.org"},
        pt \in {Unset, "", "abc", "587", "465"},
        un \in {Unset, "", "usuario"},
        pw \in {Unset, "", "clave"},
        fr \in {Unset, "rrhh@example.org"} }

\* the environments the service operations are run in
EnvsServicio ==
    { e \in Envs : /\ e["SMTP_SERVER"] = Unset /\ e["FROM_EMAIL"] = Unset
                   /\ e["SMTP_PORT"] \in {Unset, "abc"}
                   /\ e["SMTP_PASSWORD"] = "clave"
                   /\ e["SMTP_USERNAME"] \in {Unset, "usuario"} }

\* addresses of the explicit rows of a table
Direcciones(us) == { us.filas[i].correo_electronico : i \in 1..Len(us.filas) }

\* the failures injected into a call of the service
Fallas(us) ==
    {SinFalla, FallaContenido}
    \cup { FallaDb(k) : k \in 1..3 }
    \cup { FallaSmtp(d, p) : d \in (SUBSET Direcciones(us)) \ {{}}, p \in {1, Len(PasosSMTP)} }

Ociosa == [op |-> "ninguna", incapacidad_id |-> 0, otro_id |-> 0,
           motivo |-> None, falla |-> SinFalla]

Llamada(op, incapacidad_id, otro_id, motivo, falla) ==
    [op |-> op, incapacidad_id |-> incapacidad_id, otro_id |-> otro_id,
     motivo |-> motivo, falla |-> falla]

SinScript == [estado |-> "no_ejecutado"]
SinArchivos == [diagnosticos |-> <<>>, existe_diagnosticos |-> FALSE,
                existe_dir |-> FALSE, existe_sql |-> FALSE, sql |-> <<>>]

Init ==
    /\ usuarios \in Tablas
    /\ incapacidades = TablaIncapacidades
    /\ env \in EnvsServicio
    /\ llamada = Ociosa
    /\ resultado = Devuelve(FALSE, SinEfectos)
    /\ fs = SinArchivos
    /\ script = SinScript

----------------------------------------------------------------------------
(* The operations of NotificationService, called while the service is idle *)

Datos == <<usuarios, incapacidades, env, fs, script>>

NotifyNewIncapacity ==
    /\ llamada.op = "ninguna"
    /\ \E id \in IncapacidadIds, falla \in Fallas(usuarios) :
         /\ llamada' = Llamada("notify_new_incapacity", id, 0, None, falla)
         /\ resultado' = notify_new_incapacity(usuarios, incapacidades, env, id, falla)
    /\ UNCHANGED Datos

NotifyAdminsNewIncapacity ==
    /\ llamada.op = "ninguna"
    /\ \E id \in IncapacidadIds, empleado_id \in UsuarioIds, falla \in Fallas(usuarios) :
         /\ llamada' = Llamada("notify_admins_new_incapacity", id, empleado_id, None, falla)
         /\ resultado' = notify_admins_new_incapacity(usuarios, incapacidades, env,
                                                      id, empleado_id, falla)
    /\ UNCHANGED Datos

NotifyIncapacityReviewed ==
    /\ llamada.op = "ninguna"
    /\ \E id \in IncapacidadIds, admin_id \in UsuarioIds, falla \in Fallas(usuarios) :
         /\ llamada' = Llamada("notify_incapacity_reviewed", id, admin_id, None, falla)
         /\ resultado' = notify_incapacity_reviewed(usuarios, incapacidades, env,
                                                    id, admin_id, falla)
    /\ UNCHANGED Datos

NotifyIncapacityRejected ==
    /\ llamada.op = "ninguna"
    /\ \E id \in IncapacidadIds, admin_id \in UsuarioIds,
          motivo \in {None, "", "documento ilegible"}, falla \in Fallas(usuarios) :
         /\ llamada' = Llamada("notify_incapacity_rejected", id, admin_id, motivo, falla)
         /\ resultado' = notify_incapacity_rejected(usuarios, incapacidades, env,
                                                    id, admin_id, motivo, falla)
    /\ UNCHANGED Datos

GetNotificationHistory ==
    /\ llamada.op = "ninguna"
    /\ \E user_id \in UsuarioIds, skip \in {0, 1}, limit \in {0, 100} :
         /\ llamada' = Llamada("get_notification_history", skip, user_id, None, SinFalla)
         /\ resultado' = get_notification_history(user_id, skip, limit)
    /\ UNCHANGED Datos

MarkNotificationAsRead ==
    /\ llamada.op = "ninguna"
    /\ \E notification_id \in IncapacidadIds, user_id \in UsuarioIds :
         /\ llamada' = Llamada("mark_notification_as_read", notification_id, user_id,
                               None, SinFalla)
         /\ resultado' = mark_notification_as_read(notification_id, user_id)
    /\ UNCHANGED Datos

\* the call returns to its caller; the service keeps nothing of it
Retornar ==
    /\ llamada.op # "ninguna"
    /\ llamada' = Ociosa
    /\ resultado' = Devuelve(FALSE, SinEfectos)
    /\ UNCHANGED Datos

Next ==
    \/ NotifyNewIncapacity
    \/ NotifyAdminsNewIncapacity
    \/ NotifyIncapacityReviewed
    \/ NotifyIncapacityRejected
    \/ GetNotificationHistory
    \/ MarkNotificationAsRead
    \/ Retornar

Spec == Init /\ [][Next]_vars

----------------------------------------------------------------------------
(* _send_email on its own, in every environment *)

InitEmail ==
    /\ usuarios = [previos |-> 0, filas |-> <<>>]
    /\ incapacidades = {}
    /\ env \in Envs
    /\ llamada = Ociosa
    /\ resultado = Devuelve(FALSE, SinEfectos)
    /\ fs = SinArchivos
    /\ script = SinScript

SendEmail ==
    /\ llamada.op = "ninguna"
    /\ \E to_email \in UsuarioIds, text_content \in {None, "texto"},
          paso \in 0..Len(PasosSMTP) :
         LET r == _send_email(env, to_email, text_content, paso)
         IN  /\ llamada' = Llamada("_send_email", 0, to_email, text_content,
                                   IF paso = 0 THEN SinFalla
                                   ELSE FallaSmtp({to_email}, paso))
             /\ resultado' = Devuelve(r.ret,
                               [SinEfectos EXCEPT
                                  !.correos = <<Correo(to_email, text_content)>>,
                                  !.smtp = r.smtp])
    /\ UNCHANGED Datos

NextEmail == SendEmail \/ Retornar

SpecEmail == InitEmail /\ [][NextEmail]_vars

----------------------------------------------------------------------------
(* Vocabulary of the properties *)

ExisteIncapacidad(id) == \E r \in incapacidades : r.id = id

Propietario(id) == (CHOOSE r \in incapacidades : r.id = id).usuario_id

ExisteUsuario(id) ==
    \/ id \in 1..usuarios.previos
    \/ \E i \in 1..Len(usuarios.filas) : usuarios.filas[i].id_usuario = id

ExisteEmpleado(id) == ExisteIncapacidad(id) /\ ExisteUsuario(Propietario(id))

\* addresses of the active administrators among the rows the listing returns,
\* in listing order
AdministradoresListados ==
    LET n == Min(NumFilas(usuarios), LIST_LIMIT)
        pos == { i \in 1..n : Fila(usuarios, i).rol_id = ROL_ADMIN /\ Fila(usuarios, i).estado }
        \* the positions of `pos` in increasing order
        orden == [j \in 1..Cardinality(pos) |->
                    CHOOSE i \in pos : Cardinality({ h \in pos : h < i }) = j - 1]
    IN  [j \in 1..Cardinality(pos) |-> Fila(usuarios, orden[j]).correo_electronico]

\* addresses of all the active administrators of the system
AdministradoresDelSistema ==
    { usuarios.filas[i].correo_electronico :
        i \in { j \in 1..Len(usuarios.filas) :
                  usuarios.filas[j].rol_id = ROL_ADMIN /\ usuarios.filas[j].estado } }

CredencialesAusentes == ~Truthy(env["SMTP_USERNAME"]) \/ ~Truthy(env["SMTP_PASSWORD"])

Destinos(correos) == [i \in 1..Len(correos) |-> correos[i].to_email]

Rango(seq) == { seq[i] : i \in 1..Len(seq) }

EsPrefijo(a, b) == Len(a) <= Len(b) /\ a = SubSeq(b, 1, Len(a))

\* the repository calls an operation makes when nothing is missing and nothing raises
ConsultasCompletas ==
    LET id == llamada.incapacidad_id
        c1 == <<Consulta("incapacidad", "get", id)>>
        c2 == IF ExisteIncapacidad(id)
              THEN <<Consulta("usuario", "get", Propietario(id))>> ELSE <<>>
        c3 == IF llamada.op \in {"notify_new_incapacity", "notify_admins_new_incapacity"}
              THEN <<Consulta("usuario", "list", LIST_LIMIT)>>
              ELSE <<Consulta("usuario", "get", llamada.otro_id)>>
    IN  c1 \o c2 \o c3

OpsNotify ==
    {"notify_new_incapacity", "notify_admins_new_incapacity",
     "notify_incapacity_reviewed", "notify_incapacity_rejected"}

OpsEmpleado == {"notify_incapacity_reviewed", "notify_incapacity_rejected"}

----------------------------------------------------------------------------
(* C1 *)

\* C1: a call of notify_new_incapacity whose record and employee lookups
\* succeed makes exactly one send attempt per active administrator of the
\* list it obtained, in list order, whatever the attempts return; each
\* attempt calls _send_email at most once, for that administrator.
C1_UnIntentoPorAdministrador ==
    ( /\ llamada.op = "notify_new_incapacity"
      /\ ExisteEmpleado(llamada.incapacidad_id)
      /\ llamada.falla.tipo # "db" )
    => /\ resultado.intentos = AdministradoresListados
       /\ IF llamada.falla.tipo = "contenido"
          THEN resultado.correos = <<>>
          ELSE Destinos(resultado.correos) = AdministradoresListados

\* two administrators, the SMTP session to the first one fails, the second
\* one is still attempted
C1_Witness ==
    /\ llamada.op = "notify_new_incapacity"
    /\ Len(resultado.intentos) = 2
    /\ llamada.falla.tipo = "smtp"
    /\ llamada.falla.destinos = {resultado.intentos[1]}
    /\ \E i \in 1..Len(resultado.smtp) :
          ~resultado.smtp[i].ok /\ resultado.smtp[i].destino = resultado.intentos[1]
    /\ \E i \in 1..Len(resultado.smtp) :
          resultado.smtp[i].paso = "send_message" /\ resultado.smtp[i].ok
          /\ resultado.smtp[i].destino = resultado.intentos[2]
    /\ resultado.ret = TRUE

----------------------------------------------------------------------------
(* C2 *)

\* C2: with SMTP_USERNAME or SMTP_PASSWORD unset or empty,
\* _send_email returns True and takes no SMTP step, whatever the other
\* environment variables, the recipient and the body are.
C2_SinCredencialesSimula ==
    (llamada.op = "_send_email" /\ CredencialesAusentes)
    => (resultado.ret = TRUE /\ resultado.smtp = <<>>)

----------------------------------------------------------------------------
(* C3 *)

\* number of the lookup that finds nothing: 1 the record, 2 its employee,
\* 3 the reviewing administrator (reviewed/rejected only); 0 if none
PrimeraAusencia ==
    IF ~ExisteIncapacidad(llamada.incapacidad_id) THEN 1
    ELSE IF ~ExisteUsuario(Propietario(llamada.incapacidad_id)) THEN 2
    ELSE IF llamada.op \in OpsEmpleado /\ ~ExisteUsuario(llamada.otro_id) THEN 3
    ELSE 0

\* C3: when the record, its employee or (reviewed, rejected) the reviewing
\* administrator is missing, the notify operation returns False without
\* raising, attempts no send, and its lookups stop at the first missing entity.
C3_AusenteDevuelveFalse ==
    (llamada.op \in OpsNotify /\ PrimeraAusencia # 0)
    => /\ ~resultado.raised
       /\ resultado.ret = FALSE
       /\ resultado.intentos = <<>>
       /\ resultado.correos = <<>>
       /\ resultado.smtp = <<>>
       /\ EsPrefijo(resultado.consultas, ConsultasCompletas)
       /\ Len(resultado.consultas) <= PrimeraAusencia
       /\ llamada.falla.tipo # "db" => Len(resultado.consultas) = PrimeraAusencia

\* a rejection whose record and employee exist and whose administrator does not
C3_Witness ==
    /\ llamada.op = "notify_incapacity_rejected"
    /\ PrimeraAusencia = 3
    /\ llamada.falla = SinFalla
    /\ Len(resultado.consultas) = 3
    /\ resultado.ret = FALSE

----------------------------------------------------------------------------
(* C4 *)

\* C4: notify_incapacity_reviewed, when the record, its employee
\* and the reviewing administrator exist, calls _send_email once, addressed
\* to the employee.
C4_RevisadaEnviaCorreo ==
    ( /\ llamada.op = "notify_incapacity_reviewed"
      /\ PrimeraAusencia = 0
      /\ llamada.falla = SinFalla )
    => /\ Len(resultado.correos) = 1
       /\ resultado.correos[1].to_email = Propietario(llamada.incapacidad_id)

----------------------------------------------------------------------------
(* C5 *)

\* C5: no public operation lets an exception reach its caller; a notify
\* operation in which a repository call or the content building raises
\* returns False.
C5_NingunaExcepcion ==
    llamada.op \in OpsNotify \cup {"get_notification_history", "mark_notification_as_read"}
    => /\ ~resultado.raised
       /\ ( /\ llamada.op \in OpsNotify
            /\ llamada.falla.tipo = "db"
            /\ Len(resultado.consultas) >= llamada.falla.k )
          => resultado.ret = FALSE
       /\ ( /\ llamada.op \in OpsNotify \ {"notify_incapacity_reviewed"}
            /\ llamada.falla.tipo = "contenido" )
          => resultado.ret = FALSE

\* the lookup of the reviewing administrator raises during a rejection
C5_Witness ==
    /\ llamada.op = "notify_incapacity_rejected"
    /\ llamada.falla = FallaDb(3)
    /\ Len(resultado.consultas) = 3
    /\ ~resultado.raised
    /\ resultado.ret = FALSE

----------------------------------------------------------------------------
(* C6 *)

\* C6: with the SMTP credentials missing, notify_new_incapacity
\* (record, employee and at least one listed active administrator) and
\* notify_incapacity_rejected (record, employee and administrator), run with
\* nothing raising in the repositories or the content building, return True
\* and take no SMTP step.
C6_SinCredencialesExito ==
    ( /\ CredencialesAusentes
      /\ llamada.falla.tipo \in {"ninguna", "smtp"}
      /\ PrimeraAusencia = 0
      /\ \/ llamada.op = "notify_new_incapacity" /\ AdministradoresListados # <<>>
         \/ llamada.op = "notify_incapacity_rejected" )
    => (resultado.ret = TRUE /\ resultado.smtp = <<>>)

----------------------------------------------------------------------------
(* C7 *)

\* C7: a new-incapacity notification that gets past its lookups
\* attempts a send to every active administrator of the system and to nobody
\* else.
C7_TodosLosAdministradores ==
    ( /\ llamada.op = "notify_new_incapacity"
      /\ ExisteEmpleado(llamada.incapacidad_id)
      /\ llamada.falla.tipo # "db" )
    => Rango(resultado.intentos) = AdministradoresDelSistema

----------------------------------------------------------------------------
(* C9 *)

\* C9: notify_admins_new_incapacity(incapacidad_id, empleado_id) returns what
\* notify_new_incapacity(incapacidad_id) returns and has the same effects,
\* whatever empleado_id is.
C9_Alias ==
    llamada.op = "notify_admins_new_incapacity"
    => resultado = notify_new_incapacity(usuarios, incapacidades, env,
                                         llamada.incapacidad_id, llamada.falla)

\* the alias called with an empleado_id that is no user at all, and mail sent
C9_Witness ==
    /\ llamada.op = "notify_admins_new_incapacity"
    /\ ~ExisteUsuario(llamada.otro_id)
    /\ ExisteEmpleado(llamada.incapacidad_id)
    /\ resultado.ret = TRUE
    /\ resultado.intentos # <<>>
    /\ \E i \in 1..Len(resultado.smtp) : resultado.smtp[i].paso = "send_message"

----------------------------------------------------------------------------
(* verificar_sql_completo.py: text *)

\* A text is a sequence of one-character strings.

Espacios == {" ", "\t", "\n", "\r"}
Letras == {"A", "B", "C", "D", "E", "I", "N", "O", "P", "R", "S", "a", "b", "c", "d", "x"}
Cifras == <<"0", "1", "2", "3", "4", "5", "6", "7", "8", "9">>

\* str.strip()
Strip(s) ==
    LET negros == { i \in 1..Len(s) : s[i] \notin Espacios }
    IN  IF negros = {}
        THEN <<>>
        ELSE SubSeq(s, CHOOSE i \in negros : \A j \in negros : i <= j,
                       CHOOSE i \in negros : \A j \in negros : i >= j)

\* str.startswith(p)
StartsWith(s, p) == Len(s) >= Len(p) /\ SubSeq(s, 1, Len(p)) = p

\* str.split('\t', 1)
SplitTab1(s) ==
    LET tabs == { i \in 1..Len(s) : s[i] = "\t" }
    IN  IF tabs = {}
        THEN <<s>>
        ELSE LET t == CHOOSE i \in tabs : \A j \in tabs : i <= j
             IN  <<SubSeq(s, 1, t - 1), SubSeq(s, t + 1, Len(s))>>

\* str.isalpha() of one character; str.isdigit()
IsAlpha(c) == c \in Letras
IsDigit(s) == Len(s) > 0 /\ \A i \in 1..Len(s) : \E d \in 1..Len(Cifras) : s[i] = Cifras[d]

RECURSIVE Escapar(_)
\* .replace("'", "\\'").replace('"', '\\"')
Escapar(s) ==
    IF s = <<>>
    THEN <<>>
    ELSE (IF s[1] \in {"'", "\""} THEN <<"\\", s[1]>> ELSE <<s[1]>>) \o Escapar(Tail(s))

\* lines 30-43 on one line of the file: <<>> when the line is skipped,
\* else <<the diagnostic>>
ParseLinea(linea0) ==
    LET linea == Strip(linea0)
    IN  IF \/ linea = <<>>
           \/ StartsWith(linea, <<"C", "O", "D", "_", "4">>)
           \/ StartsWith(linea, <<"D", "E", "S", "C", "R", "I", "P", "C", "I", "O", "N">>)
        THEN <<>>
        ELSE LET partes == SplitTab1(linea)
             IN  IF Len(partes) >= 2
                 THEN LET codigo == Strip(partes[1])
                          descripcion == Strip(partes[2])
                      IN  IF /\ Len(codigo) >= 4
                             /\ IsAlpha(codigo[1])
                             /\ IsDigit(Tail(codigo))
                          THEN <<[codigo |-> codigo, descripcion |-> descripcion]>>
                          ELSE <<>>
                 ELSE <<>>

RECURSIVE ParseLineas(_, _, _)
\* for linea in lineas: ... diagnosticos.append(...)  (lines i..len)
ParseLineas(lineas, i, diagnosticos) ==
    IF i > Len(lineas)
    THEN diagnosticos
    ELSE ParseLineas(lineas, i + 1, diagnosticos \o ParseLinea(lineas[i]))

----------------------------------------------------------------------------
(* verificar_sql_completo.py: the generated file *)

\* The .sql file is a sequence of lines.  A line is a record: a comment, a
\* SET / SELECT statement, a blank line, the head of an INSERT statement, or
\* one row "(7, 'nombre', 'descripcion', 1)" followed by "," or ";".

LineaSql(tipo, texto) ==
    [tipo |-> tipo, texto |-> texto, nombre |-> <<>>, descripcion |-> <<>>, fin |-> ""]

\* valor = f"(7, '{nombre_escaped}', '{descripcion_escaped}', 1)"
Valor(diag, fin) ==
    [tipo |-> "fila", texto |-> "(7, '{}', '{}', 1)",
     nombre |-> Escapar(diag.codigo), descripcion |-> Escapar(diag.descripcion),
     fin |-> fin]

\* faulty variant: the last, partial batch is dropped
TotalBatches_trunca(n) == n \div batch_size

\* total_batches = (len(diagnosticos) + batch_size - 1) // batch_size
TotalBatches(n) == (n + batch_size - 1) \div batch_size

\* one iteration of the loop of lines 64-80: the lines of batch batch_num
Lote(diagnosticos, batch_num, total_batches) ==
    LET start_idx == batch_num * batch_size
        end_idx == Min(start_idx + batch_size, Len(diagnosticos))
        \* diagnosticos[start_idx:end_idx]
        batch_diagnosticos == SubSeq(diagnosticos, start_idx + 1, end_idx)
        valores == [j \in 1..Len(batch_diagnosticos) |->
                      Valor(batch_diagnosticos[j],
                            IF j < Len(batch_diagnosticos) THEN "," ELSE ";")]
    IN  <<LineaSql("comentario", "-- Lote {} de {}"),
          LineaSql("insert", "INSERT INTO parametro_hijo (parametro_id, nombre, descripcion, estado) VALUES")>>
        \o valores
        \o (IF valores = <<>> THEN <<LineaSql("punto_y_coma", ";")>> ELSE <<>>)
        \o <<LineaSql("blanco", "")>>

RECURSIVE Lotes(_, _, _)
\* for batch_num in range(total_batches): ...  (batches batch_num..total-1)
Lotes(diagnosticos, batch_num, total_batches) ==
    IF batch_num >= total_batches
    THEN <<>>
    ELSE Lote(diagnosticos, batch_num, total_batches)
         \o Lotes(diagnosticos, batch_num + 1, total_batches)

\* what lines 51-84 write
ContenidoSql(diagnosticos) ==
    <<LineaSql("comentario", "-- INSERT para tabla parametro_hijo con parametro_id = 7 (Diagnosticos)"),
      LineaSql("comentario", "-- Generado automaticamente desde diagnosticos.txt"),
      LineaSql("comentario", "-- Base de datos: MySQL"),
      [LineaSql("comentario", "-- Total de diagnosticos: {}") EXCEPT !.fin = "total"],
      LineaSql("blanco", ""),
      LineaSql("set", "SET NAMES utf8mb4;"),
      LineaSql("set", "SET FOREIGN_KEY_CHECKS = 0;"),
      LineaSql("blanco", "")>>
    \o Lotes(diagnosticos, 0, TotalBatches(Len(diagnosticos)))
    \o <<LineaSql("set", "SET FOREIGN_KEY_CHECKS = 1;"),
         LineaSql("blanco", ""),
         LineaSql("comentario", "-- Verificacion"),
         LineaSql("select", "SELECT COUNT(*) as total FROM parametro_hijo WHERE parametro_id = 7;")>>

\* [^']+ matches the whole of a quoted field
CampoSinComilla(t) == Len(t) > 0 /\ \A i \in 1..Len(t) : t[i] # "'"

\* len(re.findall(r"\(7, '[^']+', '[^']+', 1\)", contenido)): a match starts at
\* the "(7, '" of a row and ends within it, so the rows are counted one by one
RegistrosEncontrados(contenido) ==
    Cardinality({ i \in 1..Len(contenido) :
                    /\ contenido[i].tipo = "fila"
                    /\ CampoSinComilla(contenido[i].nombre)
                    /\ CampoSinComilla(contenido[i].descripcion) })

----------------------------------------------------------------------------
(* verificar_y_regenerar *)

\* what a run that returns at line 21 reports
SinLeer == [estado |-> "return", leido |-> FALSE, diagnosticos |-> <<>>,
            registros_encontrados |-> 0, correcto |-> FALSE]

\* lines 23-111: read and parse, write the .sql file, count its rows, print
Regenerar(f) ==
    LET diagnosticos == ParseLineas(f.diagnosticos, 1, <<>>)
        contenido == ContenidoSql(diagnosticos)
        registros_encontrados == RegistrosEncontrados(contenido)
    IN  [fs |-> [f EXCEPT !.existe_dir = TRUE, !.existe_sql = TRUE,
                          !.sql = contenido],
         script |-> [estado |-> IF diagnosticos = <<>>
                                THEN "raise"   \* diagnosticos[-1], line 111
                                ELSE "return",
                     leido |-> TRUE,
                     diagnosticos |-> diagnosticos,
                     registros_encontrados |-> registros_encontrados,
                     correcto |-> (registros_encontrados = Len(diagnosticos))]]

\* faulty variant: the directory is made and the .sql file opened for writing before
\* the input file is looked for
verificar_y_regenerar_abre_antes(f) ==
    IF ~f.existe_diagnosticos
    THEN [fs |-> [f EXCEPT !.existe_dir = TRUE, !.existe_sql = TRUE, !.sql = <<>>],
          script |-> SinLeer]
    ELSE Regenerar(f)

\* the whole function: the new file system and what the run did
verificar_y_regenerar(f) ==
    IF ~f.existe_diagnosticos
    THEN \* lines 19-21
         [fs |-> f, script |-> SinLeer]
    ELSE Regenerar(f)

----------------------------------------------------------------------------
(* The files the script runs on *)

Codigo(i) ==
    <<"A", Cifras[((i \div 100) % 10) + 1], Cifras[((i \div 10) % 10) + 1],
      Cifras[(i % 10) + 1]>>

\* the kinds of line of diagnosticos.txt, for line number i
LineaDeTipo(t, i) ==
    CASE t = 0 -> Codigo(i) \o <<"\t", "a", "b", "\n">>
      [] t = 1 -> Codigo(i) \o <<"\t", "a", "'", "b", "\n">>
      [] t = 2 -> Codigo(i) \o <<"\t", "a", "\"", "b", "\n">>
      [] t = 3 -> <<" ">> \o Codigo(i) \o <<" ", "\t", " ", "c", " ", "d", " ", "\n">>
      [] t = 4 -> <<"\n">>
      [] t = 5 -> Codigo(i) \o <<" ", "a", "b", "\n">>
      [] t = 6 -> Codigo(i) \o <<"\t", "\n">>
      [] t = 7 -> <<"A", "0", "1", "\t", "x", "\n">>
      [] t = 8 -> <<"1", "0", "0", "1", "\t", "x", "\n">>
      [] t = 9 -> <<"A", "0", "B", "1", "\t", "x", "\n">>
      [] t = 10 -> <<"C", "O", "D", "_", "4", "\t", "D", "E", "S", "C", "R", "I", "P", "C", "I", "O", "N", "\n">>
      [] OTHER -> <<"D", "E", "S", "C", "R", "I", "P", "C", "I", "O", "N", "\n">>

\* which kind line i has in a file of each pattern:
\*   "limpio": a header line, then well-formed lines
\*   "mixto":  every kind in turn
\*   "vacio":  no line that parses
TipoDeLinea(patron, i) ==
    CASE patron = "limpio" -> IF i = 1 THEN 10 ELSE 0
      [] patron = "mixto"  -> i % 12
      [] OTHER             -> 4 + (i % 8)

Archivo(patron, n) == [i \in 1..n |-> LineaDeTipo(TipoDeLinea(patron, i), i)]

\* an .sql file left by an earlier run
SqlViejo == <<LineaSql("comentario", "-- archivo anterior")>>

SistemasDeArchivos ==
    { [diagnosticos |-> Archivo(patron, n), existe_diagnosticos |-> TRUE,
       existe_dir |-> sal[1], existe_sql |-> sal[2],
       sql |-> IF sal[2] THEN SqlViejo ELSE <<>>] :
        patron \in {"limpio", "mixto", "vacio"}, n \in 0..MaxLineas,
        sal \in {<<FALSE, FALSE>>, <<TRUE, TRUE>>} }
    \cup
    { [diagnosticos |-> <<>>, existe_diagnosticos |-> FALSE,
       existe_dir |-> sal[1], existe_sql |-> sal[2],
       sql |-> IF sal[2] THEN SqlViejo ELSE <<>>] :
        sal \in {<<FALSE, FALSE>>, <<TRUE, FALSE>>, <<TRUE, TRUE>>} }

InitScript ==
    /\ usuarios = [previos |-> 0, filas |-> <<>>]
    /\ incapacidades = {}
    /\ env \in {e \in EnvsServicio : e["SMTP_PORT"] = Unset /\ e["SMTP_USERNAME"] = Unset}
    /\ llamada = Ociosa
    /\ resultado = Devuelve(FALSE, SinEfectos)
    /\ fs \in SistemasDeArchivos
    /\ script = SinScript

VerificarYRegenerar ==
    /\ script.estado = "no_ejecutado"
    /\ LET r == verificar_y_regenerar(fs)
       IN  fs' = r.fs /\ script' = r.script
    /\ UNCHANGED <<usuarios, incapacidades, env, llamada, resultado>>

NextScript == VerificarYRegenerar

SpecScript == InitScript /\ [][NextScript]_vars

----------------------------------------------------------------------------
(* C8 *)

\* positions of the INSERT heads in a file
PosInsert(c) == { i \in 1..Len(c) : c[i].tipo = "insert" }

\* number of rows that directly follow the INSERT head at position i
FilasTras(c, i) ==
    LET fin == { j \in (i + 1)..(Len(c) + 1) : j = Len(c) + 1 \/ c[j].tipo # "fila" }
    IN  (CHOOSE j \in fin : \A h \in fin : j <= h) - i - 1

EsFila(l) == l.tipo = "fila"

\* C8: the file written for n parsed diagnostics holds ceil(n/100) INSERT
\* statements; each but the last has exactly 100 rows and the last between 1
\* and 100; every row belongs to a statement, and the rows in file order are
\* the parsed diagnostics in input order, each once.
C8_LotesDeCien ==
    (script.estado # "no_ejecutado" /\ script.leido)
    => LET d == script.diagnosticos
           n == Len(d)
           c == fs.sql
           ins == PosInsert(c)
           filas == SelectSeq(c, EsFila)
           techo == CHOOSE k \in 0..n : k * 100 >= n /\ (k = 0 \/ (k - 1) * 100 < n)
       IN  /\ fs.existe_sql
           /\ Cardinality(ins) = techo
           /\ \A i \in ins :
                IF \E j \in ins : j > i
                THEN FilasTras(c, i) = 100
                ELSE FilasTras(c, i) \in 1..100
           /\ \A p \in 1..Len(c) :
                c[p].tipo = "fila" => (p > 1 /\ c[p - 1].tipo \in {"insert", "fila"})
           /\ Len(filas) = n
           /\ \A j \in 1..n :
                /\ filas[j].nombre = Escapar(d[j].codigo)
                /\ filas[j].descripcion = Escapar(d[j].descripcion)

\* more than two full batches and a partial one
C8_Witness ==
    /\ script.estado = "return"
    /\ script.leido
    /\ Len(script.diagnosticos) > 2 * batch_size
    /\ Len(script.diagnosticos) % batch_size # 0
    /\ Cardinality(PosInsert(fs.sql)) = 3

----------------------------------------------------------------------------
(* C10 *)

\* C10: a run that finds no diagnosticos.txt returns without raising and
\* leaves the .sql file and its directory as they were.
C10_SinEntradaNoToca ==
    [][ (~fs.existe_diagnosticos /\ script'.estado # "no_ejecutado")
        => (fs' = fs /\ script'.estado = "return" /\ ~script'.leido) ]_vars

\* the run found no input, and the file of an earlier run is still there
C10_Witness ==
    /\ script.estado = "return"
    /\ ~script.leido
    /\ ~fs.existe_diagnosticos
    /\ fs.existe_sql
    /\ fs.sql = SqlViejo

----------------------------------------------------------------------------
(* C11 *)

\* C11: a run of verificar_y_regenerar on an existing diagnosticos.txt,
\* whatever its lines are, ends by returning, never by raising.
C11_TerminaSinExcepcion ==
    (fs.existe_diagnosticos /\ script.estado # "no_ejecutado")
    => script.estado = "return"

----------------------------------------------------------------------------
(* C12 *)

\* the row of the employee who owns the record of the call
Empleado == usuario_repo_get(usuarios, Propietario(llamada.incapacidad_id))[1]

\* the SMTP steps of the log that raised
PasosFallidos(smtp) == { i \in 1..Len(smtp) : ~smtp[i].ok }

\* C12: notify_incapacity_rejected, when the record, its employee and the
\* administrator exist and neither a lookup nor the content building raises,
\* calls _send_email exactly once, addressed to the employee's
\* correo_electronico, and returns what that call returned: True when the
\* message was handed over or the send was simulated, False when a step failed.
C12_RechazoDevuelveElEnvio ==
    ( /\ llamada.op = "notify_incapacity_rejected"
      /\ PrimeraAusencia = 0
      /\ llamada.falla.tipo \in {"ninguna", "smtp"} )
    => /\ Len(resultado.correos) = 1
       /\ resultado.correos[1].to_email = Empleado.correo_electronico
       /\ resultado.intentos = <<>>
       /\ resultado.ret = _send_email(env, Empleado.correo_electronico,
                                      resultado.correos[1].text_content,
                                      PasoQueFalla(llamada.falla,
                                                   Empleado.correo_electronico)).ret
       /\ PasosFallidos(resultado.smtp) # {} => resultado.ret = FALSE
       /\ (\E i \in 1..Len(resultado.smtp) :
              resultado.smtp[i].paso = "send_message" /\ resultado.smtp[i].ok)
          => resultado.ret = TRUE
       /\ \A i \in 1..Len(resultado.smtp) :
              resultado.smtp[i].destino = Empleado.correo_electronico

\* a rejection whose only mail fails at send_message: False comes back
C12_Witness ==
    /\ llamada.op = "notify_incapacity_rejected"
    /\ PrimeraAusencia = 0
    /\ llamada.falla.tipo = "smtp"
    /\ Len(resultado.correos) = 1
    /\ \E i \in 1..Len(resultado.smtp) :
          resultado.smtp[i].paso = "send_message" /\ ~resultado.smtp[i].ok
    /\ resultado.ret = FALSE

----------------------------------------------------------------------------
(* C13 *)

OpsNueva == {"notify_new_incapacity", "notify_admins_new_incapacity"}

\* the call reached _get_administradores and the listing raised
ListadoFalla == ExisteEmpleado(llamada.incapacidad_id) /\ llamada.falla = FallaDb(3)

\* C13: when no listed user is an active administrator, or the listing
\* raises, notify_new_incapacity returns False without raising and makes no
\* send attempt: no _send_notification_to_admin, no _send_email, no SMTP step;
\* when it got as far as the listing, the listing is its last repository call.
C13_SinAdministradoresFalse ==
    ( /\ llamada.op \in OpsNueva
      /\ (AdministradoresListados = <<>> \/ ListadoFalla) )
    => /\ ~resultado.raised
       /\ resultado.ret = FALSE
       /\ resultado.intentos = <<>>
       /\ resultado.correos = <<>>
       /\ resultado.smtp = <<>>
       /\ ( /\ ExisteEmpleado(llamada.incapacidad_id)
            /\ (llamada.falla.tipo = "db" => llamada.falla.k = 3) )
          => resultado.consultas = ConsultasCompletas

\* active administrators exist and are within the listing, but the listing raises
C13_Witness ==
    /\ llamada.op = "notify_new_incapacity"
    /\ ListadoFalla
    /\ AdministradoresListados # <<>>
    /\ Len(resultado.consultas) = 3
    /\ resultado.consultas[3] = Consulta("usuario", "list", LIST_LIMIT)
    /\ resultado.ret = FALSE
    /\ resultado.intentos = <<>>

----------------------------------------------------------------------------
(* C14 *)

\* mail to administrators can be delivered in this state: an active
\* administrator is listed and _send_email has what it needs
Entregable ==
    /\ AdministradoresListados # <<>>
    /\ ~CredencialesAusentes
    /\ getenv(env, "SMTP_PORT", "587") \in IntLiterals

\* C14: in every state the notify and mark operations lead to,
\* get_notification_history returns the empty list and mark_notification_as_read
\* returns True, whatever their arguments are; neither raises, calls a
\* repository or sends anything.
C14_NadaSeRegistra ==
    /\ llamada.op = "get_notification_history"
       => resultado = Devuelve(<<>>, SinEfectos)
    /\ llamada.op = "mark_notification_as_read"
       => resultado = Devuelve(TRUE, SinEfectos)

\* the history of the employee who owns record 1, asked for from its start,
\* where notifications about that record can be delivered
C14_Witness ==
    /\ llamada.op = "get_notification_history"
    /\ ExisteEmpleado(1)
    /\ llamada.otro_id = Propietario(1)
    /\ llamada.incapacidad_id = 0
    /\ Entregable
    /\ resultado.ret = <<>>

----------------------------------------------------------------------------
(* C15 *)

\* the repository methods that only read
MetodosDeLectura == {"get", "list"}

\* C15: a notify call, whether it succeeds or fails, invokes only get and
\* list on the repositories and leaves the user table and the incapacity table,
\* rows and fields, exactly as they were.
C15_SoloLectura ==
    [][ llamada'.op \in OpsNotify
        => /\ usuarios' = usuarios
           /\ incapacidades' = incapacidades
           /\ \A i \in 1..Len(resultado'.consultas) :
                 /\ resultado'.consultas[i].metodo \in MetodosDeLectura
                 /\ resultado'.consultas[i].repo \in {"usuario", "incapacidad"} ]_vars

\* a rejection that made its three lookups and whose mail failed; the tables
\* are the initial ones
C15_Witness ==
    /\ llamada.op = "notify_incapacity_rejected"
    /\ Len(resultado.consultas) = 3
    /\ PasosFallidos(resultado.smtp) # {}
    /\ resultado.ret = FALSE
    /\ incapacidades = TablaIncapacidades
    /\ usuarios \in Tablas

----------------------------------------------------------------------------
(* C16 *)

\* what the send attempt to the administrator with address d returned
IntentoExitoso(d) ==
    _send_notification_to_admin(env, [id |-> d, email |-> d], llamada.falla).ret

\* the attempts of the call that returned True
Exitosos == { i \in 1..Len(resultado.intentos) : IntentoExitoso(resultado.intentos[i]) }

\* C16: notify_new_incapacity returns True exactly when at least one of the
\* send attempts it made returned True: True when some administrators were
\* reached and others not, False when every attempt failed or none was made.
C16_TrueSiiAlgunExito ==
    llamada.op = "notify_new_incapacity"
    => /\ resultado.ret \in BOOLEAN
       /\ resultado.ret <=> (Exitosos # {})
       /\ (\E i \in 1..Len(resultado.smtp) :
              resultado.smtp[i].paso = "send_message" /\ resultado.smtp[i].ok)
          => resultado.ret

\* two attempts, the first one delivered, the second one failed: True
C16_Witness ==
    /\ llamada.op = "notify_new_incapacity"
    /\ Len(resultado.intentos) = 2
    /\ Exitosos = {1}
    /\ \E i \in 1..Len(resultado.smtp) :
          /\ resultado.smtp[i].paso = "send_message" /\ resultado.smtp[i].ok
          /\ resultado.smtp[i].destino = resultado.intentos[1]
    /\ \E i \in 1..Len(resultado.smtp) :
          ~resultado.smtp[i].ok /\ resultado.smtp[i].destino = resultado.intentos[2]
    /\ resultado.ret = TRUE

----------------------------------------------------------------------------
(* C17 *)

EsCierre(p) == p.paso = "close"
NoEsCierre(p) == p.paso # "close"

\* C17: with both credentials present, the SMTP steps _send_email takes are
\* an initial part of connect, starttls, login, send_message, in that order,
\* all for the recipient; a step is taken only if every step before it
\* succeeded; True is returned exactly when all four succeeded and False when
\* one raised; a connection that was opened is closed once, after the last step.
C17_OrdenSMTP ==
    (llamada.op = "_send_email" /\ ~CredencialesAusentes)
    => LET log == resultado.smtp
           pasos == SelectSeq(log, NoEsCierre)
           n == Len(pasos)
       IN  /\ EsPrefijo([i \in 1..n |-> pasos[i].paso], PasosSMTP)
           /\ \A i \in 1..Len(log) : log[i].destino = llamada.otro_id
           /\ \A i \in 1..(n - 1) : pasos[i].ok
           /\ resultado.ret <=> (n = Len(PasosSMTP) /\ \A i \in 1..n : pasos[i].ok)
           /\ PasosFallidos(log) # {} => resultado.ret = FALSE
           /\ Len(SelectSeq(log, EsCierre)) = (IF n > 0 /\ pasos[1].ok THEN 1 ELSE 0)
           /\ (n > 0 /\ pasos[1].ok) => (log[Len(log)].paso = "close" /\ log[Len(log)].ok)
           /\ ~resultado.raised

\* login raises: send_message is skipped, the connection is closed, False
C17_Witness ==
    /\ llamada.op = "_send_email"
    /\ ~CredencialesAusentes
    /\ Len(resultado.smtp) = 4
    /\ resultado.smtp[2].paso = "starttls" /\ resultado.smtp[2].ok
    /\ resultado.smtp[3].paso = "login" /\ ~resultado.smtp[3].ok
    /\ resultado.smtp[4].paso = "close"
    /\ resultado.ret = FALSE

----------------------------------------------------------------------------
(* C18 *)

\* C18: in every run that reads its input, the number of rows the script
\* counts back from the file it wrote equals the number of diagnostics it
\* parsed, so it reports CORRECTO, whatever the descriptions contain.
C18_VerificacionCoincide ==
    (script.estado # "no_ejecutado" /\ script.leido)
    => /\ script.registros_encontrados = Len(script.diagnosticos)
       /\ script.correcto

====
